---- MODULE Spec2Model ----
(***************************************************************************)
(* EchoGraph2: the document processing pipeline (process_document), the    *)
(* relationship extractor (extract_relationships), the chunker and the     *)
(* vector store, as a state machine over the row store, the 'chunks'       *)
(* collection of the vector index and the job queue.                       *)
(*                                                                         *)
(* Text is a sequence of characters over a small alphabet; scores are      *)
(* integers in hundredths (0.75 is 75).                                    *)
(***************************************************************************)
EXTENDS Integers, Sequences, FiniteSets, TLC

(***************************************************************************)
(* Bounds of the model.                                                    *)
(***************************************************************************)
MaxDocs == 2
MaxJobs == 3
\* Worker processes of the deployment the specification Spec explores.
PipelineWorkers == 1

(* settings.chunk_size / settings.chunk_overlap, scaled to the alphabet.   *)
ChunkSize == 4
ChunkOverlap == 1

None == "None"

Min(S) == CHOOSE x \in S : \A y \in S : x <= y
Max(S) == CHOOSE x \in S : \A y \in S : x >= y

(***************************************************************************)
(* Strings: str.strip(), slicing, re.split.                                *)
(***************************************************************************)
IsSpace(c) == c \in {" ", "\n"}

Punct == {".", "!", "?"}

\* str.strip(): drop leading and trailing whitespace.
Strip(s) ==
  LET idx == {i \in 1..Len(s) : ~IsSpace(s[i])}
  IN  IF idx = {} THEN <<>> ELSE SubSeq(s, Min(idx), Max(idx))

\* s[-n:] for n > 0: the last n characters, the whole string when shorter.
Tail_(s, n) == IF Len(s) <= n THEN s ELSE SubSeq(s, Len(s) - n + 1, Len(s))

\* Positions j at which a match of \n\s*\n that starts at i can end.
ParaEnds(s, i) ==
  {j \in (i+1)..Len(s) : s[j] = "\n" /\ \A k \in (i+1)..(j-1) : IsSpace(s[k])}

\* re.split(r'\n\s*\n', text): leftmost match, \s* greedy.
RECURSIVE ReSplitParagraphs(_)
ReSplitParagraphs(s) ==
  LET starts == {i \in 1..Len(s) : s[i] = "\n" /\ ParaEnds(s, i) # {}}
  IN  IF starts = {} THEN <<s>>
      ELSE LET i == Min(starts)
               j == Max(ParaEnds(s, i))
           IN  <<SubSeq(s, 1, i - 1)>> \o ReSplitParagraphs(SubSeq(s, j + 1, Len(s)))

\* [p.strip() for p in paragraphs if p.strip()]
RECURSIVE StripNonEmpty(_)
StripNonEmpty(ps) ==
  IF ps = <<>> THEN <<>>
  ELSE LET p == Strip(Head(ps))
       IN  (IF p = <<>> THEN <<>> ELSE <<p>>) \o StripNonEmpty(Tail(ps))

_split_paragraphs(text) == StripNonEmpty(ReSplitParagraphs(text))

\* re.split(r'(?<=[.!?])\s+', text): a whitespace run that follows . ! or ?
RECURSIVE ReSplitSentences(_)
ReSplitSentences(s) ==
  LET starts == {i \in 2..Len(s) : IsSpace(s[i]) /\ s[i-1] \in Punct}
  IN  IF starts = {} THEN <<s>>
      ELSE LET i == Min(starts)
               j == Max({m \in i..Len(s) : \A k \in i..m : IsSpace(s[k])})
           IN  <<SubSeq(s, 1, i - 1)>> \o ReSplitSentences(SubSeq(s, j + 1, Len(s)))

(***************************************************************************)
(* DocumentChunker.                                                        *)
(***************************************************************************)
\* One iteration of the loop of _split_large_text over a sentence.
SplitLargeStep(st, sentence) ==
  IF Len(st.current) + Len(sentence) > ChunkSize
  THEN [chunks  |-> IF st.current # <<>>
                    THEN Append(st.chunks, Strip(st.current)) ELSE st.chunks,
        current |-> IF ChunkOverlap > 0 /\ st.current # <<>>
                    THEN Tail_(st.current, ChunkOverlap) \o <<" ">> \o sentence
                    ELSE sentence]
  ELSE [chunks  |-> st.chunks,
        current |-> IF st.current # <<>>
                    THEN st.current \o <<" ">> \o sentence ELSE sentence]

RECURSIVE SplitLargeLoop(_, _)
SplitLargeLoop(st, sentences) ==
  IF sentences = <<>> THEN st
  ELSE SplitLargeLoop(SplitLargeStep(st, Head(sentences)), Tail(sentences))

_split_large_text(text) ==
  LET st == SplitLargeLoop([chunks |-> <<>>, current |-> <<>>], ReSplitSentences(text))
  IN  IF st.current # <<>> THEN Append(st.chunks, Strip(st.current)) ELSE st.chunks

\* The dictionary of _create_chunk; char_count is taken before the strip.
_create_chunk(text, index) ==
  [text |-> Strip(text), chunk_index |-> index, char_count |-> Len(text)]

RECURSIVE CreateChunks(_, _)
CreateChunks(texts, index) ==
  IF texts = <<>> THEN <<>>
  ELSE <<_create_chunk(Head(texts), index)>> \o CreateChunks(Tail(texts), index + 1)

\* One iteration of the loop of chunk_text over a paragraph.
ChunkTextStep(st, para) ==
  IF Len(para) > ChunkSize
  THEN LET flushed == IF st.current # <<>>
                      THEN Append(st.chunks, _create_chunk(st.current, st.chunk_index))
                      ELSE st.chunks
           idx     == IF st.current # <<>> THEN st.chunk_index + 1 ELSE st.chunk_index
           subs    == _split_large_text(para)
       IN  [chunks      |-> flushed \o CreateChunks(subs, idx),
            current     |-> <<>>,
            chunk_index |-> idx + Len(subs)]
  ELSE IF Len(st.current) + Len(para) > ChunkSize
  THEN [chunks      |-> IF st.current # <<>>
                        THEN Append(st.chunks, _create_chunk(st.current, st.chunk_index))
                        ELSE st.chunks,
        chunk_index |-> IF st.current # <<>> THEN st.chunk_index + 1 ELSE st.chunk_index,
        current     |-> IF ChunkOverlap > 0 /\ st.current # <<>>
                        THEN Tail_(st.current, ChunkOverlap) \o <<"\n", "\n">> \o para
                        ELSE para]
  ELSE [chunks      |-> st.chunks,
        chunk_index |-> st.chunk_index,
        current     |-> IF st.current # <<>>
                        THEN st.current \o <<"\n", "\n">> \o para ELSE para]

RECURSIVE ChunkTextLoop(_, _)
ChunkTextLoop(st, paras) ==
  IF paras = <<>> THEN st
  ELSE ChunkTextLoop(ChunkTextStep(st, Head(paras)), Tail(paras))

\* DocumentChunker.chunk_text(text)
chunk_text(text) ==
  IF text = <<>> \/ Strip(text) = <<>> THEN <<>>
  ELSE LET st == ChunkTextLoop([chunks |-> <<>>, current |-> <<>>, chunk_index |-> 0],
                               _split_paragraphs(text))
       IN  IF st.current # <<>>
           THEN Append(st.chunks, _create_chunk(st.current, st.chunk_index))
           ELSE st.chunks

(***************************************************************************)
(* Inputs of the model.                                                    *)
(***************************************************************************)
DocIds == 1..MaxDocs
JobIds == 1..MaxJobs

\* The texts of the files that are uploaded: what the extractor hands back as
\* extraction_result["text"] for the stored object.
Texts ==
  { <<>>,
    <<"\n", "\n">>,
    <<"a", "a", "a", "\n", "\n", "a", "b">> }

\* (document_type, version) of an uploaded document.
\* An optional value: Python None, or a value.
NoneValue == [is_none |-> TRUE, value |-> <<>>]
Some(v) == [is_none |-> FALSE, value |-> v]

\* Python truth of an optional string or list: None and the empty one are false.
Truthy(o) == ~o.is_none /\ o.value # <<>>

DocProfiles ==
  { [document_type |-> "norm",      version |-> Some(<<"2">>)],
    [document_type |-> "guideline", version |-> NoneValue] }

\* target_doc_ids of an extract_relationships message over the documents D.
TargetLists(D) == {NoneValue, Some(<<>>)} \cup {Some(<<d>>) : d \in D}

(***************************************************************************)
(* State.                                                                  *)
(***************************************************************************)
VARIABLES
  documents,      \* committed rows of table documents: id -> row
  next_doc_id,    \* sequence of documents.id
  chunk_rows,     \* committed rows of table document_chunks
  next_chunk_id,  \* sequence of document_chunks.id
  relationships,  \* committed rows of table document_relationships
  next_rel_id,    \* sequence of document_relationships.id
  points,         \* points of the 'chunks' collection of the vector index
  jobs,           \* job id -> the job's message, position and local state
  workers,        \* number of worker processes consuming the queue
  storage,        \* blob store: document id -> the object uploaded for it (name, text)
  document_points, \* ids of the points of the 'documents' collection of the vector index
  call            \* the last call of the vector store or of the search endpoint, with its outcome

vars == <<documents, next_doc_id, chunk_rows, next_chunk_id,
          relationships, next_rel_id, points, jobs, workers, storage,
          document_points, call>>

\* No call of the vector store or of the search endpoint was made yet.
NoCall == [op |-> "none"]

NoJob == [kind |-> "none", pc |-> "free"]

FreeJobs == {j \in DOMAIN jobs : jobs[j].kind = "none"}

\* A fresh process_document job for document d.
NewProcessJob(d) ==
  [kind |-> "process_document", document_id |-> d, pc |-> "queued",
   text |-> <<>>, chunks |-> <<>>, db_chunks |-> <<>>,
   session_failed |-> FALSE, last_commit |-> None, upserted |-> {},
   error |-> None, result |-> None, relationships_queued |-> FALSE]

\* The job record once the task has returned: the locals are gone.
Returned(job, result) ==
  [NewProcessJob(job.document_id) EXCEPT
     !.pc = "done", !.result = result]

\* The jobs a worker is executing.
Running == {j \in DOMAIN jobs : jobs[j].pc \notin {"free", "queued", "done"}}

\* A fresh extract_relationships job.
NewExtractJob(d, targets) ==
  [kind |-> "extract_relationships", document_id |-> d,
   target_doc_ids |-> targets, pc |-> "queued",
   todo |-> <<>>, doc_similarities |-> <<>>, pending |-> <<>>,
   relationships_created |-> 0, error |-> None, result |-> None]

\* task.delay(...): the message takes the next free job id.
Delay(job) == [jobs EXCEPT ![Min(FreeJobs)] = job]

Init ==
  /\ documents = <<>>
  /\ next_doc_id = 1
  /\ chunk_rows = {}
  /\ next_chunk_id = 1
  /\ relationships = {}
  /\ next_rel_id = 1
  /\ points = {}
  /\ jobs = [j \in JobIds |-> NoJob]
  /\ workers = PipelineWorkers
  /\ storage = <<>>
  /\ document_points = {}
  /\ call = NoCall

(***************************************************************************)
(* upload_document: the row is committed as UPLOADING, the file goes to    *)
(* the blob store, the row becomes PROCESSING and process_document is      *)
(* queued.  A failed upload assigns DocumentStatus.FAILED, which is no     *)
(* member of the enumeration: the assignment raises and the row stays      *)
(* UPLOADING.                                                              *)
(***************************************************************************)
\* settings.minio_bucket, and the extension of the uploaded file.
MinioBucket == "echograph-documents"
FileExtension == ".pdf"

\* os.path.join and os.path.basename on paths written as sequences of their
\* components and separators.
os_path_join(a, b) ==
  IF b # <<>> /\ Head(b) = "/" THEN b
  ELSE IF a = <<>> \/ a[Len(a)] = "/" THEN a \o b
  ELSE a \o <<"/">> \o b

os_path_basename(path) ==
  LET slashes == {i \in DOMAIN path : path[i] = "/"}
  IN  IF slashes = {} THEN path ELSE SubSeq(path, Max(slashes) + 1, Len(path))

\* filename = f"{file_id}{file_extension}": the uuid4 is the serial number of
\* the upload, which no other upload has.
Filename(file_id) == <<ToString(file_id), FileExtension>>

\* file_path = os.path.join(settings.minio_bucket, filename)
FilePath(file_id) == os_path_join(<<MinioBucket>>, Filename(file_id))

\* What the object store holds for an upload: the object's name and the
\* text an extractor reads from it.
StoredObject(file_id, content) == [object_name |-> Filename(file_id), text |-> content]

NewDocument(profile, st, file_path) ==
  [status |-> st, error_message |-> None, processed_date |-> None,
   document_type |-> profile.document_type, version |-> profile.version,
   file_path |-> file_path]

upload_document(profile, uploaded, content) ==
  /\ next_doc_id \in DocIds
  /\ next_doc_id' = next_doc_id + 1
  /\ IF uploaded
     THEN /\ FreeJobs # {}
          /\ documents' = documents @@
               (next_doc_id :> NewDocument(profile, "processing", FilePath(next_doc_id)))
          /\ storage' = storage @@ (next_doc_id :> StoredObject(next_doc_id, content))
          /\ jobs' = Delay(NewProcessJob(next_doc_id))
     ELSE /\ documents' = documents @@
               (next_doc_id :> NewDocument(profile, "uploading", FilePath(next_doc_id)))
          /\ UNCHANGED <<jobs, storage>>
  /\ UNCHANGED <<workers, document_points, call, chunk_rows, next_chunk_id, relationships,
                 next_rel_id, points>>

\* An operator puts a process_document message on the queue again.
EnqueueProcess(d) ==
  /\ d \in DOMAIN documents
  /\ FreeJobs # {}
  /\ jobs' = Delay(NewProcessJob(d))
  /\ UNCHANGED <<workers, storage, document_points, call, documents, next_doc_id, chunk_rows, next_chunk_id,
                 relationships, next_rel_id, points>>

(***************************************************************************)
(* Row store session of a job.  db.commit() writes the pending changes or  *)
(* raises; after a commit or flush that raised, the session refuses every  *)
(* statement until db.rollback() is called.                                *)
(***************************************************************************)
\* document.status = st; db.commit() succeeded: the status and the rows the
\* session had flushed become committed.
\* Mutant: the status is assigned and the commit is left out.
CommitStatus_NoCommit(j, st) ==
  /\ documents' = documents
  /\ chunk_rows' = chunk_rows

CommitStatus(j, st) ==
  /\ documents' = [documents EXCEPT ![jobs[j].document_id].status = st]
  /\ chunk_rows' = chunk_rows \cup {jobs[j].db_chunks[i] : i \in DOMAIN jobs[j].db_chunks}

\* The job record after a stage raised: control goes to the except block.
Raised(job, err, db_failed) ==
  [job EXCEPT !.pc = "handler", !.error = err,
              !.session_failed = job.session_failed \/ db_failed]

\* The job record after a status was committed.
Committed(job, st, pc) ==
  [job EXCEPT !.pc = pc, !.last_commit = st, !.db_chunks = <<>>]

(***************************************************************************)
(* The vector index.                                                       *)
(***************************************************************************)
\* The embedding model, reduced to the class of the vector it returns.
Embed(text) == Cardinality({i \in DOMAIN text : text[i] = "b"}) % 3

\* Cosine score of two vectors, in hundredths.
Score(v, w) == IF v = w THEN 100 ELSE IF v - w \in {1, -1} THEN 80 ELSE 60

MinLen3(a, b, c) == Min({Len(a), Len(b), Len(c)})

\* VectorStore.store_chunk_embeddings: the outcome [raised, points].
store_chunk_embeddings(pts, chunk_ids, embeddings, metadata) ==
  IF Len(chunk_ids) # Len(embeddings) /\ Len(embeddings) # Len(metadata)
  THEN [raised |-> TRUE, points |-> pts]
  ELSE LET n == MinLen3(chunk_ids, embeddings, metadata)
       IN  IF \E i \in 1..n : ~metadata[i].has_document_id
           THEN [raised |-> TRUE, points |-> pts]
           ELSE [raised |-> FALSE,
                 points |-> {p \in pts : \A i \in 1..n : p.id # chunk_ids[i]}
                            \cup {[id |-> chunk_ids[i], vector |-> embeddings[i],
                                   document_id |-> metadata[i].document_id,
                                   chunk_index |-> metadata[i].chunk_index,
                                   document_type |-> metadata[i].document_type,
                                   chunk_text |-> metadata[i].chunk_text]
                                  : i \in 1..n}]

\* Sum of a sequence of integers.
RECURSIVE Sum(_)
Sum(q) == IF q = <<>> THEN 0 ELSE Head(q) + Sum(Tail(q))

\* The first n elements, q[:n].
Take(q, n) == SubSeq(q, 1, IF Len(q) < n THEN Len(q) ELSE n)

\* The points of a set in the order of their ids.
\* The points of S, whose ids lie in lo..hi, in the order of their ids.
RECURSIVE SortByIdBetween(_, _, _)
SortByIdBetween(S, lo, hi) ==
  IF S = {} THEN <<>>
  ELSE IF lo >= hi
       THEN LET p == CHOOSE x \in S : TRUE
            IN  <<p>> \o SortByIdBetween(S \ {p}, lo, hi)
       ELSE LET mid == (lo + hi) \div 2
            IN  SortByIdBetween({p \in S : p.id <= mid}, lo, mid)
                \o SortByIdBetween({p \in S : p.id > mid}, mid + 1, hi)

SortById(S) ==
  IF S = {} THEN <<>>
  ELSE LET ids == {p.id : p \in S}
       IN  SortByIdBetween(S, Min(ids), 0 - Min({0 - i : i \in ids}))

\* client.search: the hits of a query vector among the candidates, best
\* score first, at most limit of them, none below the threshold.
RECURSIVE RankHits(_, _)
RankHits(S, v) ==
  IF S = {} THEN <<>>
  ELSE LET p == CHOOSE x \in S : \A y \in S :
                  \/ Score(v, x.vector) > Score(v, y.vector)
                  \/ Score(v, x.vector) = Score(v, y.vector) /\ x.id <= y.id
       IN  <<p>> \o RankHits(S \ {p}, v)

Search(candidates, v, limit, threshold) ==
  Take(RankHits({p \in candidates : Score(v, p.vector) >= threshold}, v), limit)

\* limit of the scroll call of find_cross_document_similarities.
ScrollLimit == 1000

\* The tuples one source point adds to similarities.
RECURSIVE HitsPerTarget(_, _, _, _, _)
HitsPerTarget(pts, point, target_ids, threshold, limit) ==
  IF target_ids = <<>> THEN <<>>
  ELSE Search({p \in pts : p.document_id = Head(target_ids)},
              point.vector, limit, threshold)
       \o HitsPerTarget(pts, point, Tail(target_ids), threshold, limit)

SimilarityTuples(point, hits) ==
  [i \in DOMAIN hits |->
     [source_chunk_id |-> point.id, target_chunk_id |-> hits[i].id,
      score |-> Score(point.vector, hits[i].vector),
      target_document_id |-> hits[i].document_id]]

RECURSIVE CrossLoop(_, _, _, _, _, _)
CrossLoop(pts, source_chunks, source_doc_id, target_doc_ids, threshold, limit) ==
  IF source_chunks = <<>> THEN <<>>
  ELSE IF Len(source_chunks) = 1
       THEN LET point == Head(source_chunks)
                hits  == IF Truthy(target_doc_ids)
                         THEN HitsPerTarget(pts, point, target_doc_ids.value,
                                            threshold, limit)
                         ELSE Search({p \in pts : p.document_id # source_doc_id},
                                     point.vector, limit, threshold)
            IN  SimilarityTuples(point, hits)
       ELSE \* the iterations of the first half of the list, then of the second
            LET half == Len(source_chunks) \div 2
            IN  CrossLoop(pts, SubSeq(source_chunks, 1, half), source_doc_id,
                          target_doc_ids, threshold, limit)
                \o CrossLoop(pts, SubSeq(source_chunks, half + 1, Len(source_chunks)),
                             source_doc_id, target_doc_ids, threshold, limit)

\* VectorStore.find_cross_document_similarities
find_cross_document_similarities(pts, source_doc_id, target_doc_ids, threshold, limit) ==
  CrossLoop(pts,
            Take(SortById({p \in pts : p.document_id = source_doc_id}), ScrollLimit),
            source_doc_id, target_doc_ids, threshold, limit)

(***************************************************************************)
(* extract_relationships and its helpers.                                  *)
(***************************************************************************)
\* Defaults of the task's threshold and limit_per_chunk arguments.
DefaultThreshold == 75
DefaultLimitPerChunk == 5

\* One iteration of the loop of aggregate_document_similarities; the
\* dictionary is kept as the sequence of its items in insertion order.
AggregateStep(acc, sim) ==
  IF sim.target_document_id = 0 THEN acc
  ELSE LET pair == [source_chunk_id |-> sim.source_chunk_id,
                    target_chunk_id |-> sim.target_chunk_id,
                    similarity |-> sim.score]
           at == {i \in DOMAIN acc : acc[i].target_doc_id = sim.target_document_id}
       IN  IF at = {}
           THEN Append(acc, [target_doc_id |-> sim.target_document_id,
                             scores |-> <<sim.score>>, chunk_pairs |-> <<pair>>])
           ELSE [acc EXCEPT ![Min(at)] =
                   [@ EXCEPT !.scores = Append(@, sim.score),
                             !.chunk_pairs = Append(@, pair)]]

RECURSIVE AggregateLoop(_, _)
AggregateLoop(acc, similarities) ==
  IF similarities = <<>> THEN acc
  ELSE AggregateLoop(AggregateStep(acc, Head(similarities)), Tail(similarities))

aggregate_document_similarities(similarities) == AggregateLoop(<<>>, similarities)

\* Order of the characters of a version string.
CharOrd(c) ==
  CASE c = "." -> 0 [] c = "0" -> 1 [] c = "1" -> 2 [] c = "2" -> 3 [] OTHER -> 4

\* Python's a > b on strings: lexicographic, a proper prefix is smaller.
RECURSIVE StrGreater(_, _)
StrGreater(a, b) ==
  IF a = <<>> THEN FALSE
  ELSE IF b = <<>> THEN TRUE
  ELSE IF CharOrd(Head(a)) # CharOrd(Head(b)) THEN CharOrd(Head(a)) > CharOrd(Head(b))
  ELSE StrGreater(Tail(a), Tail(b))

\* avg_similarity > 0.90, on scores in hundredths.
SupersedesThreshold == 90

\* Mutant: avg_similarity >= 0.90 is enough.
determine_relationship_type_AtLeast(source_doc, target_doc, scores) ==
  IF source_doc.document_type = "norm" /\ target_doc.document_type = "guideline"
  THEN "compliance"
  ELSE IF source_doc.document_type = "guideline" /\ target_doc.document_type = "norm"
  THEN "reference"
  ELSE IF /\ source_doc.document_type = "norm" /\ target_doc.document_type = "norm"
          /\ Sum(scores) >= SupersedesThreshold * Len(scores)
          /\ Truthy(source_doc.version) /\ Truthy(target_doc.version)
          /\ StrGreater(source_doc.version.value, target_doc.version.value)
  THEN "supersedes"
  ELSE "similar"

determine_relationship_type(source_doc, target_doc, scores) ==
  IF source_doc.document_type = "norm" /\ target_doc.document_type = "guideline"
  THEN "compliance"
  ELSE IF source_doc.document_type = "guideline" /\ target_doc.document_type = "norm"
  THEN "reference"
  ELSE IF source_doc.document_type = "norm" /\ target_doc.document_type = "norm"
  THEN IF Sum(scores) > SupersedesThreshold * Len(scores)
       THEN IF Truthy(source_doc.version) /\ Truthy(target_doc.version)
               /\ StrGreater(source_doc.version.value, target_doc.version.value)
            THEN "supersedes"
            ELSE "similar"
       ELSE "similar"
  ELSE "similar"

\* sorted(scores, reverse=True)
RECURSIVE SortDesc(_)
SortDesc(q) ==
  IF q = <<>> THEN <<>>
  ELSE LET i == CHOOSE k \in DOMAIN q : \A m \in DOMAIN q : q[k] >= q[m]
       IN  <<q[i]>> \o SortDesc(SubSeq(q, 1, i - 1) \o SubSeq(q, i + 1, Len(q)))

\* round(n / d) to the nearest integer, ties to even, for n >= 0 and d > 0.
RoundDiv(n, d) ==
  LET q == n \div d
      r == n % d
  IN  IF 2 * r > d \/ (2 * r = d /\ q % 2 = 1) THEN q + 1 ELSE q

\* How many of the best scores make the confidence; how many pairs are kept.
TopScores == 10
TopPairs == 20

\* Mutant: the mean of all the scores of the bucket.
Confidence_MeanOfAll(scores) ==
  IF scores = <<>> THEN 0 ELSE RoundDiv(Sum(scores) * 100, Len(scores))

\* round(sum(top) / len(top) * 100, 2), in hundredths of a percent.
Confidence(scores) ==
  LET top == Take(SortDesc(scores), TopScores)
  IN  IF top = <<>> THEN 0 ELSE RoundDiv(Sum(top) * 100, Len(top))

\* The DocumentRelationship the loop body builds for one target.
NewRelationship(source_doc_id, source_doc, target_doc, data) ==
  [source_doc_id |-> source_doc_id,
   target_doc_id |-> data.target_doc_id,
   relationship_type |-> determine_relationship_type(source_doc, target_doc, data.scores),
   confidence |-> Confidence(data.scores),
   details |-> [matched_chunks_count |-> Len(data.chunk_pairs),
                avg_similarity |-> RoundDiv(Sum(data.scores) * 100, Len(data.scores)),
                max_similarity |-> Max({data.scores[i] : i \in DOMAIN data.scores}),
                min_similarity |-> Min({data.scores[i] : i \in DOMAIN data.scores}),
                chunk_pairs |-> Take(data.chunk_pairs, TopPairs)],
   validation_status |-> "auto_detected", validated_by |-> None]

\* The job record once extract_relationships has returned.
ReturnedExtract(job, result) ==
  [NewExtractJob(job.document_id, job.target_doc_ids) EXCEPT
     !.pc = "done", !.result = result]

\* The except block: db.rollback() and the error result with str(e).
Failed(job, err) == [ReturnedExtract(job, "error") EXCEPT !.error = err]

IsExtract(j, pc) == jobs[j].kind = "extract_relationships" /\ jobs[j].pc = pc

\* A message for extract_relationships is put on the queue.
EnqueueExtract(d, targets) ==
  /\ FreeJobs # {}
  /\ jobs' = Delay(NewExtractJob(d, targets))
  /\ UNCHANGED <<workers, storage, document_points, call, documents, next_doc_id, chunk_rows, next_chunk_id,
                 relationships, next_rel_id, points>>

\* Steps 1 to 4: load the source, search the index, aggregate.
ER_Start(j, index_ok) ==
  /\ IsExtract(j, "queued")
  /\ Cardinality(Running) < workers
  /\ LET job == jobs[j]
         d   == job.document_id
         sims == find_cross_document_similarities(points, d, job.target_doc_ids,
                                                  DefaultThreshold, DefaultLimitPerChunk)
     IN
     IF d \notin DOMAIN documents
     THEN jobs' = [jobs EXCEPT ![j] = Failed(job, "not found")]
     ELSE IF documents[d].status # "ready"
     THEN jobs' = [jobs EXCEPT ![j] = Failed(job, "not ready")]
     ELSE IF ~index_ok
     THEN jobs' = [jobs EXCEPT ![j] = Failed(job, "vector index failed")]
     ELSE IF sims = <<>>
     THEN jobs' = [jobs EXCEPT ![j] = ReturnedExtract(job, "success")]
     ELSE jobs' = [jobs EXCEPT ![j] =
                     [job EXCEPT !.pc = "buckets",
                                 !.doc_similarities = aggregate_document_similarities(sims)]]
  /\ UNCHANGED <<workers, storage, document_points, call, documents, next_doc_id, chunk_rows, next_chunk_id,
                 relationships, next_rel_id, points>>

\* Mutant: the loop without its existence query.
RelationshipExists_Never(job, target_doc_id) == FALSE

\* The existence query of the loop: committed rows and the session's own.
RelationshipExists(job, target_doc_id) ==
  \/ \E r \in relationships :
       r.source_doc_id = job.document_id /\ r.target_doc_id = target_doc_id
  \/ \E i \in DOMAIN job.pending : job.pending[i].target_doc_id = target_doc_id

\* Step 5: one iteration of the loop over doc_similarities.
ER_Bucket(j, db_ok) ==
  /\ IsExtract(j, "buckets")
  /\ LET job  == jobs[j]
         data == Head(job.doc_similarities)
         rest == Tail(job.doc_similarities)
         pc   == IF rest = <<>> THEN "commit" ELSE "buckets"
     IN
     IF ~db_ok
     THEN jobs' = [jobs EXCEPT ![j] = Failed(job, "row store failed")]
     ELSE IF RelationshipExists(job, data.target_doc_id)
             \/ data.target_doc_id \notin DOMAIN documents
     THEN jobs' = [jobs EXCEPT ![j] = [job EXCEPT !.pc = pc, !.doc_similarities = rest]]
     ELSE jobs' = [jobs EXCEPT ![j] =
                     [job EXCEPT !.pc = pc, !.doc_similarities = rest,
                                 !.pending = Append(@, NewRelationship(
                                     job.document_id, documents[job.document_id],
                                     documents[data.target_doc_id], data)),
                                 !.relationships_created = @ + 1]]
  /\ UNCHANGED <<workers, storage, document_points, call, documents, next_doc_id, chunk_rows, next_chunk_id,
                 relationships, next_rel_id, points>>

\* The rows of a session with the ids the insert assigns.
WithIds(pending, first_id) ==
  {[id |-> first_id + i - 1] @@ pending[i] : i \in DOMAIN pending}

\* Mutant: a commit that fails has written the first row of the session.
ER_Commit_PartialOnFailure(j, commit_ok) ==
  /\ IsExtract(j, "commit")
  /\ LET job == jobs[j] IN
     IF commit_ok
     THEN /\ relationships' = relationships \cup WithIds(job.pending, next_rel_id)
          /\ next_rel_id' = next_rel_id + Len(job.pending)
          /\ jobs' = [jobs EXCEPT ![j] = ReturnedExtract(job, "success")]
     ELSE /\ relationships' = relationships \cup WithIds(Take(job.pending, 1), next_rel_id)
          /\ next_rel_id' = next_rel_id + Len(Take(job.pending, 1))
          /\ jobs' = [jobs EXCEPT ![j] = Failed(job, "commit failed")]
  /\ UNCHANGED <<workers, storage, document_points, call, documents, next_doc_id, chunk_rows, next_chunk_id, points>>

\* db.commit() of the inserts, or the rollback of the except block.
ER_Commit(j, commit_ok) ==
  /\ IsExtract(j, "commit")
  /\ LET job == jobs[j] IN
     IF commit_ok
     THEN /\ relationships' = relationships \cup WithIds(job.pending, next_rel_id)
          /\ next_rel_id' = next_rel_id + Len(job.pending)
          /\ jobs' = [jobs EXCEPT ![j] = ReturnedExtract(job, "success")]
     ELSE /\ jobs' = [jobs EXCEPT ![j] = Failed(job, "commit failed")]
          /\ UNCHANGED <<relationships, next_rel_id>>
  /\ UNCHANGED <<workers, storage, document_points, call, documents, next_doc_id, chunk_rows, next_chunk_id, points>>

(***************************************************************************)
(* process_document.  A step is the work of one stage together with the    *)
(* commit that follows it.  Every call to a collaborator (blob store,      *)
(* extractor, embedding model, row store, vector index) either raises or   *)
(* returns; which of the two is an input of the step.  This covers the     *)
(* source as it stands, where StorageClient() takes no keyword arguments,  *)
(* download_file is asked for a name no object has, DocumentExtractor      *)
(* .extract raises NotImplementedError, EmbeddingGenerator has no          *)
(* generate_batch and DocumentChunk has no document_id keyword, so that    *)
(* these calls fail on every run, and it covers the source with these      *)
(* calls answered.                                                         *)
(***************************************************************************)
IsProcess(j, pc) == jobs[j].kind = "process_document" /\ jobs[j].pc = pc

\* Step 1: load the document, commit EXTRACTING.
PD_Load(j, commit_ok) ==
  /\ IsProcess(j, "queued")
  /\ Cardinality(Running) < workers
  /\ LET job == jobs[j] IN
     IF job.document_id \notin DOMAIN documents
     THEN /\ jobs' = [jobs EXCEPT ![j] = Raised(job, "not found", FALSE)]
          /\ UNCHANGED <<documents, chunk_rows>>
     ELSE IF commit_ok
     THEN /\ CommitStatus(j, "extracting")
          /\ jobs' = [jobs EXCEPT ![j] = Committed(job, "extracting", "extract")]
     ELSE /\ jobs' = [jobs EXCEPT ![j] = Raised(job, "commit failed", TRUE)]
          /\ UNCHANGED <<documents, chunk_rows>>
  /\ UNCHANGED <<workers, storage, document_points, call, next_doc_id, next_chunk_id, relationships, next_rel_id, points>>

\* Steps 2 and 3: download, extract, commit ANALYZING.  download_file is asked
\* for document.file_path and returns True or False.
PD_Extract(j, downloaded, extracted, commit_ok) ==
  /\ IsProcess(j, "extract")
  /\ LET job  == jobs[j]
         text == IF job.document_id \in DOMAIN storage
                 THEN storage[job.document_id].text ELSE <<>>
     IN
     IF ~downloaded \/ job.document_id \notin DOMAIN storage
     THEN /\ jobs' = [jobs EXCEPT ![j] = Raised(job, "download failed", FALSE)]
          /\ UNCHANGED <<documents, chunk_rows>>
     ELSE IF ~extracted \/ text = <<>>
     THEN /\ jobs' = [jobs EXCEPT ![j] = Raised(job, "extraction failed", FALSE)]
          /\ UNCHANGED <<documents, chunk_rows>>
     ELSE IF commit_ok
     THEN /\ CommitStatus(j, "analyzing")
          /\ jobs' = [jobs EXCEPT ![j] =
                        [Committed(job, "analyzing", "chunk") EXCEPT !.text = text]]
     ELSE /\ jobs' = [jobs EXCEPT ![j] = Raised(job, "commit failed", TRUE)]
          /\ UNCHANGED <<documents, chunk_rows>>
  /\ UNCHANGED <<workers, storage, document_points, call, next_doc_id, next_chunk_id, relationships, next_rel_id, points>>

\* Step 4: chunk the text, commit EMBEDDING.
PD_Chunk(j, commit_ok) ==
  /\ IsProcess(j, "chunk")
  /\ LET job == jobs[j] IN
     IF commit_ok
     THEN /\ CommitStatus(j, "embedding")
          /\ jobs' = [jobs EXCEPT ![j] =
                        [Committed(job, "embedding", "embed")
                           EXCEPT !.chunks = chunk_text(job.text)]]
     ELSE /\ jobs' = [jobs EXCEPT ![j] = Raised(job, "commit failed", TRUE)]
          /\ UNCHANGED <<documents, chunk_rows>>
  /\ UNCHANGED <<workers, storage, document_points, call, next_doc_id, next_chunk_id, relationships, next_rel_id, points>>

\* The DocumentChunk rows of step 6, with the ids the flush assigns.
NewChunkRows(d, chunks, first_id) ==
  [i \in 1..Len(chunks) |->
     [id |-> first_id + i - 1, doc_id |-> d, chunk_index |-> i - 1,
      chunk_text |-> chunks[i].text, char_count |-> Len(chunks[i].text)]]

\* Steps 5 and 6: embed the chunks, add the rows, flush.
PD_Embed(j, embedded, flushed) ==
  /\ IsProcess(j, "embed")
  /\ LET job == jobs[j] IN
     IF ~embedded
     THEN /\ jobs' = [jobs EXCEPT ![j] = Raised(job, "embedding failed", FALSE)]
          /\ UNCHANGED next_chunk_id
     ELSE IF ~flushed
     THEN /\ jobs' = [jobs EXCEPT ![j] = Raised(job, "flush failed", TRUE)]
          /\ UNCHANGED next_chunk_id
     ELSE /\ jobs' = [jobs EXCEPT ![j] =
                        [job EXCEPT !.pc = "upsert",
                                    !.db_chunks = NewChunkRows(job.document_id,
                                                               job.chunks, next_chunk_id)]]
          /\ next_chunk_id' = next_chunk_id + Len(job.chunks)
  /\ UNCHANGED <<workers, storage, document_points, call, documents, next_doc_id, chunk_rows, relationships, next_rel_id, points>>

\* Step 7: store the embeddings in the 'chunks' collection.
PD_Upsert(j, index_ok) ==
  /\ IsProcess(j, "upsert")
  /\ LET job == jobs[j]
         ids == [i \in DOMAIN job.db_chunks |-> job.db_chunks[i].id]
         emb == [i \in DOMAIN job.chunks |-> Embed(job.chunks[i].text)]
         meta == [i \in DOMAIN job.db_chunks |->
                    [has_document_id |-> TRUE, document_id |-> job.document_id,
                     chunk_index |-> job.db_chunks[i].chunk_index,
                     document_type |-> documents[job.document_id].document_type,
                     chunk_text |-> job.chunks[i].text]]
         out == store_chunk_embeddings(points, ids, emb, meta)
     IN
     IF ~index_ok \/ out.raised
     THEN /\ jobs' = [jobs EXCEPT ![j] = Raised(job, "vector index failed", FALSE)]
          /\ UNCHANGED points
     ELSE /\ points' = out.points
          /\ jobs' = [jobs EXCEPT ![j] =
                        [job EXCEPT !.pc = "finalize",
                                    !.upserted = {ids[i] : i \in DOMAIN ids}]]
  /\ UNCHANGED <<workers, storage, document_points, call, documents, next_doc_id, chunk_rows, next_chunk_id,
                 relationships, next_rel_id>>

\* Step 8: commit READY.
PD_Finalize(j, commit_ok) ==
  /\ IsProcess(j, "finalize")
  /\ LET job == jobs[j] IN
     IF commit_ok
     THEN /\ CommitStatus(j, "ready")
          /\ jobs' = [jobs EXCEPT ![j] = Committed(job, "ready", "fanout")]
     ELSE /\ jobs' = [jobs EXCEPT ![j] = Raised(job, "commit failed", TRUE)]
          /\ UNCHANGED <<documents, chunk_rows>>
  /\ UNCHANGED <<workers, storage, document_points, call, next_doc_id, next_chunk_id, relationships, next_rel_id, points>>

\* The other documents that are READY.
OtherReady(d) == {o \in DOMAIN documents : o # d /\ documents[o].status = "ready"}

\* Mutant: extract_relationships is queued without counting.
PD_FanOut_NoCount(j, queue_ok) ==
  /\ IsProcess(j, "fanout")
  /\ LET job == jobs[j] IN
     IF ~queue_ok
     THEN jobs' = [jobs EXCEPT ![j] = Raised(job, "queue failed", FALSE)]
     ELSE /\ FreeJobs # {}
          /\ jobs' = [Delay(NewExtractJob(job.document_id, NoneValue)) EXCEPT ![j] =
                        Returned(job, "success")]
  /\ UNCHANGED <<workers, storage, document_points, call, documents, next_doc_id, chunk_rows, next_chunk_id,
                 relationships, next_rel_id, points>>

\* After READY: count the other READY documents, queue extract_relationships,
\* return the success result.
PD_FanOut(j, queue_ok) ==
  /\ IsProcess(j, "fanout")
  /\ LET job == jobs[j] IN
     IF OtherReady(job.document_id) = {}
     THEN jobs' = [jobs EXCEPT ![j] = Returned(job, "success")]
     ELSE IF ~queue_ok
     THEN jobs' = [jobs EXCEPT ![j] = Raised(job, "queue failed", FALSE)]
     ELSE /\ FreeJobs # {}
          /\ jobs' = [Delay(NewExtractJob(job.document_id, NoneValue)) EXCEPT ![j] =
                        Returned(job, "success")]
  /\ UNCHANGED <<workers, storage, document_points, call, documents, next_doc_id, chunk_rows, next_chunk_id,
                 relationships, next_rel_id, points>>

\* The except block: write ERROR when the session still works, return the
\* error result.
PD_Handler(j, commit_ok) ==
  /\ IsProcess(j, "handler")
  /\ LET job == jobs[j] IN
     IF ~job.session_failed /\ job.document_id \in DOMAIN documents /\ commit_ok
     THEN /\ CommitStatus(j, "error")
          /\ jobs' = [jobs EXCEPT ![j] = Returned(job, "error")]
     ELSE /\ jobs' = [jobs EXCEPT ![j] = Returned(job, "error")]
          /\ UNCHANGED <<documents, chunk_rows>>
  /\ UNCHANGED <<workers, storage, document_points, call, next_doc_id, next_chunk_id, relationships, next_rel_id, points>>

Next ==
  \/ \E profile \in DocProfiles, uploaded \in BOOLEAN, content \in Texts :
       upload_document(profile, uploaded, content)
  \/ \E d \in DocIds : EnqueueProcess(d)
  \/ \E j \in DOMAIN jobs, ok \in BOOLEAN : PD_Load(j, ok)
  \/ \E j \in DOMAIN jobs, dl \in BOOLEAN, ex \in BOOLEAN, ok \in BOOLEAN :
       PD_Extract(j, dl, ex, ok)
  \/ \E j \in DOMAIN jobs, ok \in BOOLEAN : PD_Chunk(j, ok)
  \/ \E j \in DOMAIN jobs, em \in BOOLEAN, fl \in BOOLEAN : PD_Embed(j, em, fl)
  \/ \E j \in DOMAIN jobs, ok \in BOOLEAN : PD_Upsert(j, ok)
  \/ \E j \in DOMAIN jobs, ok \in BOOLEAN : PD_Finalize(j, ok)
  \/ \E j \in DOMAIN jobs, ok \in BOOLEAN : PD_FanOut(j, ok)
  \/ \E j \in DOMAIN jobs, ok \in BOOLEAN : PD_Handler(j, ok)

Spec == Init /\ [][Next]_vars

(***************************************************************************)
(* The relationship extractor on a corpus the pipeline has processed:      *)
(* RelDocs documents, each uploaded and processed in the order of the ids  *)
(* by a run that did not fail; the run of the last document has either     *)
(* committed READY or has upserted its vectors and not yet committed.      *)
(***************************************************************************)
RelDocs == 3
RelJobs == 2
RelWorkers == 2

RelProfile(d) ==
  CASE d % 3 = 1 -> [document_type |-> "norm",      version |-> Some(<<"2">>)]
    [] d % 3 = 2 -> [document_type |-> "norm",      version |-> Some(<<"1", "0">>)]
    [] OTHER     -> [document_type |-> "guideline", version |-> NoneValue]

RelText(d) ==
  IF d % 3 = 0 THEN <<"a", "a", "a", "\n", "\n", "a", "b">> ELSE <<"a", "a">>

RECURSIVE FirstChunkId(_)
FirstChunkId(d) ==
  IF d = 1 THEN 1 ELSE FirstChunkId(d - 1) + Len(chunk_text(RelText(d - 1)))

RelRows(d) ==
  LET rows == NewChunkRows(d, chunk_text(RelText(d)), FirstChunkId(d))
  IN  {rows[i] : i \in DOMAIN rows}

RelPoints(d) ==
  LET chunks == chunk_text(RelText(d))
  IN  {[id |-> FirstChunkId(d) + i - 1, vector |-> Embed(chunks[i].text),
        document_id |-> d, chunk_index |-> i - 1,
        document_type |-> RelProfile(d).document_type,
        chunk_text |-> chunks[i].text] : i \in DOMAIN chunks}

InitRel ==
  /\ \E st \in {"ready", "embedding"} :
       documents = [d \in 1..RelDocs |->
                      NewDocument(RelProfile(d), IF d = RelDocs THEN st ELSE "ready",
                                  FilePath(d))]
  /\ next_doc_id = RelDocs + 1
  /\ chunk_rows = UNION {RelRows(d) : d \in {x \in 1..RelDocs : documents[x].status = "ready"}}
  /\ next_chunk_id = FirstChunkId(RelDocs + 1)
  /\ relationships = {}
  /\ next_rel_id = 1
  /\ points = UNION {RelPoints(d) : d \in 1..RelDocs}
  /\ jobs = [j \in 1..RelJobs |-> NoJob]
  /\ workers \in 1..RelWorkers
  /\ storage = [d \in 1..RelDocs |-> StoredObject(d, RelText(d))]
  /\ document_points = {}
  /\ call = NoCall

RelNext ==
  \/ \E d \in DOMAIN documents \cup {next_doc_id},
        targets \in TargetLists(DOMAIN documents) : EnqueueExtract(d, targets)
  \/ \E j \in DOMAIN jobs, ok \in BOOLEAN : ER_Start(j, ok)
  \/ \E j \in DOMAIN jobs, ok \in BOOLEAN : ER_Bucket(j, ok)
  \/ \E j \in DOMAIN jobs, ok \in BOOLEAN : ER_Commit(j, ok)

SpecRel == InitRel /\ [][RelNext]_vars

(***************************************************************************)
(* Two deliveries of the process_document message of one document, taken   *)
(* by different worker processes: document 1 is processed, document 2 is   *)
(* uploaded and RaceJobs messages for it are on the queue.                 *)
(***************************************************************************)
RaceJobs == 2
RaceWorkers == 2

InitRace ==
  /\ documents = [d \in 1..2 |->
                    NewDocument(RelProfile(d), IF d = 1 THEN "ready" ELSE "processing",
                                FilePath(d))]
  /\ next_doc_id = 3
  /\ chunk_rows = RelRows(1)
  /\ next_chunk_id = FirstChunkId(2)
  /\ relationships = {}
  /\ next_rel_id = 1
  /\ points = RelPoints(1)
  /\ jobs = [j \in 1..(RaceJobs + 1) |->
               IF j <= RaceJobs THEN NewProcessJob(2) ELSE NoJob]
  /\ workers = RaceWorkers
  /\ storage = [d \in 1..2 |-> StoredObject(d, RelText(d))]
  /\ document_points = {}
  /\ call = NoCall

RaceNext ==
  \/ \E j \in DOMAIN jobs, ok \in BOOLEAN : PD_Load(j, ok)
  \/ \E j \in DOMAIN jobs, dl \in BOOLEAN, ex \in BOOLEAN, ok \in BOOLEAN :
       PD_Extract(j, dl, ex, ok)
  \/ \E j \in DOMAIN jobs, ok \in BOOLEAN : PD_Chunk(j, ok)
  \/ \E j \in DOMAIN jobs, em \in BOOLEAN, fl \in BOOLEAN : PD_Embed(j, em, fl)
  \/ \E j \in DOMAIN jobs, ok \in BOOLEAN : PD_Upsert(j, ok)
  \/ \E j \in DOMAIN jobs, ok \in BOOLEAN : PD_Finalize(j, ok)
  \/ \E j \in DOMAIN jobs, ok \in BOOLEAN : PD_FanOut(j, ok)
  \/ \E j \in DOMAIN jobs, ok \in BOOLEAN : PD_Handler(j, ok)

SpecRace == InitRace /\ [][RaceNext]_vars

(***************************************************************************)
(* Review of the relationships: runs of extract_relationships, one after   *)
(* the other, on a corpus of READY documents, and a reviewer who posts     *)
(* validations.                                                            *)
(***************************************************************************)
ValidationStatus == {"auto_detected", "pending_review", "approved", "rejected"}

\* POST /{relationship_id}/validate: status, notes, reviewer and time are
\* assigned and committed; an unknown id is answered with 404.
validate_relationship(relationship_id, validation_status) ==
  /\ \E r \in relationships : r.id = relationship_id
  /\ relationships' =
       {IF r.id = relationship_id
        THEN [r EXCEPT !.validation_status = validation_status,
                       !.validated_by = "reviewer"]
        ELSE r : r \in relationships}
  /\ UNCHANGED <<workers, storage, document_points, call, documents, next_doc_id, chunk_rows, next_chunk_id,
                 next_rel_id, points, jobs>>

InitValidate ==
  /\ documents = [d \in 1..RelDocs |-> NewDocument(RelProfile(d), "ready", FilePath(d))]
  /\ next_doc_id = RelDocs + 1
  /\ chunk_rows = UNION {RelRows(d) : d \in 1..RelDocs}
  /\ next_chunk_id = FirstChunkId(RelDocs + 1)
  /\ relationships = {}
  /\ next_rel_id = 1
  /\ points = UNION {RelPoints(d) : d \in 1..RelDocs}
  /\ jobs = [j \in 1..RelJobs |-> NoJob]
  /\ workers = 1
  /\ storage = [d \in 1..RelDocs |-> StoredObject(d, RelText(d))]
  /\ document_points = {}
  /\ call = NoCall

ValidateNext ==
  \/ \E d \in DOMAIN documents : EnqueueExtract(d, NoneValue)
  \/ \E j \in DOMAIN jobs, ok \in BOOLEAN : ER_Start(j, ok)
  \/ \E j \in DOMAIN jobs, ok \in BOOLEAN : ER_Bucket(j, ok)
  \/ \E j \in DOMAIN jobs, ok \in BOOLEAN : ER_Commit(j, ok)
  \/ \E id \in 1..next_rel_id, st \in ValidationStatus : validate_relationship(id, st)

SpecValidate == InitValidate /\ [][ValidateNext]_vars

(***************************************************************************)
(* Deletion of documents on a processed corpus: runs of                    *)
(* extract_relationships create relationships, DELETE /documents/{id}      *)
(* removes documents.  A document is deleted while no run of               *)
(* extract_relationships is between its first query and its commit.        *)
(***************************************************************************)
\* The rows that would keep a NULL target_doc_id: Document.target_relationships
\* has no delete cascade, so the session detaches these rows from the
\* document it deletes; the rows the document is the source of are deleted
\* with it and are not detached.
Detached(document_id) ==
  {r \in relationships : r.target_doc_id = document_id /\ r.source_doc_id # document_id}

\* DELETE /documents/{document_id}: the object is removed from the blob store
\* (a failure is logged), then db.delete(document) and db.commit().  The
\* commit deletes the document, its chunks and the relationships it is the
\* source of, and sets target_doc_id of the detached rows to NULL, which the
\* column does not admit: with such a row the commit raises and nothing is
\* deleted from the row store.
delete_document(document_id, file_deleted, commit_ok) ==
  /\ document_id \in DOMAIN documents
  /\ Running = {}
  /\ LET filename == os_path_basename(documents[document_id].file_path)
         deleted  == commit_ok /\ Detached(document_id) = {}
     IN  /\ storage' = IF file_deleted
                       THEN [x \in {y \in DOMAIN storage :
                                      storage[y].object_name # filename} |-> storage[x]]
                       ELSE storage
         /\ documents' = IF deleted
                         THEN [x \in DOMAIN documents \ {document_id} |-> documents[x]]
                         ELSE documents
         /\ chunk_rows' = IF deleted
                          THEN {c \in chunk_rows : c.doc_id # document_id}
                          ELSE chunk_rows
         /\ relationships' = IF deleted
                             THEN {r \in relationships : r.source_doc_id # document_id}
                             ELSE relationships
         /\ call' = [op |-> "delete_document", document_id |-> document_id,
                     database_ok |-> commit_ok,
                     raised |-> IF deleted THEN "none"
                                ELSE IF commit_ok THEN "IntegrityError"
                                ELSE "OperationalError"]
  /\ UNCHANGED <<workers, document_points, next_doc_id, next_chunk_id, next_rel_id,
                 points, jobs>>

InitDelete ==
  /\ documents = [d \in 1..RelDocs |-> NewDocument(RelProfile(d), "ready", FilePath(d))]
  /\ next_doc_id = RelDocs + 1
  /\ chunk_rows = UNION {RelRows(d) : d \in 1..RelDocs}
  /\ next_chunk_id = FirstChunkId(RelDocs + 1)
  /\ relationships = {}
  /\ next_rel_id = 1
  /\ points = UNION {RelPoints(d) : d \in 1..RelDocs}
  /\ jobs = [j \in 1..RelJobs |-> NoJob]
  /\ workers = 1
  /\ storage = [d \in 1..RelDocs |-> StoredObject(d, RelText(d))]
  /\ document_points = {}
  /\ call = NoCall

DeleteNext ==
  \/ \E d \in 1..RelDocs : EnqueueExtract(d, NoneValue)
  \/ \E j \in DOMAIN jobs, ok \in BOOLEAN : ER_Start(j, ok)
  \/ \E j \in DOMAIN jobs, ok \in BOOLEAN : ER_Bucket(j, ok)
  \/ \E j \in DOMAIN jobs, ok \in BOOLEAN : ER_Commit(j, ok)
  \/ \E d \in 1..RelDocs, file_deleted \in BOOLEAN, ok \in BOOLEAN :
       delete_document(d, file_deleted, ok)

SpecDelete == InitDelete /\ [][DeleteNext]_vars

(***************************************************************************)
(* The classification of one bucket: a run of extract_relationships that   *)
(* has aggregated one bucket for a target, for every pair of document      *)
(* types and versions and a range of score lists.                          *)
(***************************************************************************)
ClassifyVersions ==
  {NoneValue, Some(<<>>), Some(<<"1">>), Some(<<"2">>), Some(<<"1", "0">>)}

ClassifyProfiles ==
  {[document_type |-> t, version |-> v] : t \in {"norm", "guideline"}, v \in ClassifyVersions}

\* n times the score v.
Rep(n, v) == [i \in 1..n |-> v]

\* Score lists of a bucket in the order of aggregation: short ones, one of
\* eight scores whose mean falls halfway between two hundredths, and ones
\* with more scores than the confidence and the details keep.
ClassifyScores ==
  {<<80>>, <<90>>, <<91>>, <<100>>, <<100, 80>>, <<100, 90>>, <<80, 90, 100>>,
   Rep(7, 80) \o <<81>>,
   <<80>> \o Rep(TopScores, 100),
   Rep(TopPairs, 80) \o <<100>>}

\* The bucket of target 2: the i-th source chunk matched one chunk of it.
ClassifyBucket(scores) ==
  [target_doc_id |-> 2, scores |-> scores,
   chunk_pairs |-> [i \in DOMAIN scores |->
                      [source_chunk_id |-> i, target_chunk_id |-> 100 + i,
                       similarity |-> scores[i]]]]

InitClassify ==
  /\ \E src \in ClassifyProfiles, tgt \in ClassifyProfiles :
       documents = <<NewDocument(src, "ready", FilePath(1)),
                     NewDocument(tgt, "ready", FilePath(2))>>
  /\ next_doc_id = 3
  /\ chunk_rows = {}
  /\ next_chunk_id = 1
  /\ relationships = {}
  /\ next_rel_id = 1
  /\ points = {}
  /\ \E scores \in ClassifyScores :
       jobs = <<[NewExtractJob(1, NoneValue) EXCEPT
                   !.pc = "buckets",
                   !.doc_similarities = <<ClassifyBucket(scores)>>]>>
  /\ workers = 1
  /\ storage = <<>>
  /\ document_points = {}
  /\ call = NoCall

ClassifyNext ==
  \/ \E j \in DOMAIN jobs, ok \in BOOLEAN : ER_Bucket(j, ok)
  \/ \E j \in DOMAIN jobs, ok \in BOOLEAN : ER_Commit(j, ok)

SpecClassify == InitClassify /\ [][ClassifyNext]_vars

(***************************************************************************)
(* The vector store called directly: one VectorStore instance on which a   *)
(* client calls store_chunk_embeddings, store_document_embedding,          *)
(* search_similar_chunks and delete_document_vectors in any order, with    *)
(* lists of any lengths and payloads with or without 'document_id'.  Each  *)
(* call of the client library either returns or raises.                    *)
(***************************************************************************)
StoreLen == 2
StoreDocs == 2

\* The sequences over S of length at most n.
SeqsUpTo(S, n) == UNION {[1..k -> S] : k \in 0..n}

\* The payloads a client passes: with the key 'document_id' or without it
\* (document_id is then 0 and never read).
StorePayloads ==
  {[has_document_id |-> TRUE, document_id |-> d, chunk_index |-> 0,
    document_type |-> "norm", chunk_text |-> <<"a">>] : d \in 1..StoreDocs}
  \cup {[has_document_id |-> FALSE, document_id |-> 0, chunk_index |-> 0,
         document_type |-> "norm", chunk_text |-> <<"a">>]}

\* A call of store_chunk_embeddings: the ValueError of the function, or the
\* exception of client.upsert, or the number of points stored.
Call_store_chunk_embeddings(chunk_ids, embeddings, metadata, index_ok) ==
  LET out == store_chunk_embeddings(points, chunk_ids, embeddings, metadata)
      stored == ~out.raised /\ index_ok
  IN  /\ points' = IF stored THEN out.points ELSE points
      /\ call' = [op |-> "store_chunk_embeddings", chunk_ids |-> chunk_ids,
                  embeddings |-> embeddings, metadata |-> metadata,
                  raised |-> IF out.raised THEN "ValueError"
                             ELSE IF index_ok THEN "none" ELSE "UnexpectedResponse",
                  returned |-> IF stored
                               THEN MinLen3(chunk_ids, embeddings, metadata) ELSE 0]
      /\ UNCHANGED <<workers, storage, document_points, documents, next_doc_id,
                     chunk_rows, next_chunk_id, relationships, next_rel_id, jobs>>

\* VectorStore.store_document_embedding: one point with the document's id in
\* the 'documents' collection.
store_document_embedding(document_id, index_ok) ==
  /\ document_points' = IF index_ok THEN document_points \cup {document_id}
                        ELSE document_points
  /\ call' = [op |-> "store_document_embedding", document_id |-> document_id,
              raised |-> IF index_ok THEN "none" ELSE "UnexpectedResponse"]
  /\ UNCHANGED <<workers, storage, points, documents, next_doc_id,
                 chunk_rows, next_chunk_id, relationships, next_rel_id, jobs>>

\* The dictionary filters of search_similar_chunks: a key is absent or
\* carries a value to match.
NoFilters == [document_id |-> NoneValue, document_type |-> NoneValue]

\* query_filter: every condition must match the payload.
MatchesFilters(p, filters) ==
  /\ filters.document_id.is_none \/ p.document_id = filters.document_id.value
  /\ filters.document_type.is_none \/ p.document_type = filters.document_type.value

\* VectorStore.search_similar_chunks: the hits as SearchResult objects.
search_similar_chunks(pts, query_vector, limit, score_threshold, filters) ==
  LET hits == Search({p \in pts : MatchesFilters(p, filters)},
                     query_vector, limit, score_threshold)
  IN  [i \in DOMAIN hits |->
         [id |-> hits[i].id, score |-> Score(query_vector, hits[i].vector),
          document_id |-> hits[i].document_id,
          document_type |-> hits[i].document_type,
          chunk_text |-> hits[i].chunk_text]]

Call_search_similar_chunks(query_vector, limit, score_threshold, filters, index_ok) ==
  /\ call' = [op |-> "search_similar_chunks", query_vector |-> query_vector,
              limit |-> limit, score_threshold |-> score_threshold,
              filters |-> filters,
              raised |-> IF index_ok THEN "none" ELSE "UnexpectedResponse",
              results |-> IF index_ok
                          THEN search_similar_chunks(points, query_vector, limit,
                                                     score_threshold, filters)
                          ELSE <<>>]
  /\ UNCHANGED <<workers, storage, document_points, points, documents, next_doc_id,
                 chunk_rows, next_chunk_id, relationships, next_rel_id, jobs>>

\* delete_document_vectors with the exception of the second delete let out.
delete_document_vectors_NoTry(document_id, chunks_ok, documents_ok) ==
  /\ points' = IF chunks_ok THEN {p \in points : p.document_id # document_id}
               ELSE points
  /\ document_points' = IF chunks_ok /\ documents_ok
                        THEN document_points \ {document_id} ELSE document_points
  /\ call' = [op |-> "delete_document_vectors", document_id |-> document_id,
              chunks_deleted |-> chunks_ok,
              had_document_point |-> document_id \in document_points,
              removed |-> Cardinality({p \in points : p.document_id = document_id}),
              raised |-> IF chunks_ok /\ documents_ok THEN "none"
                         ELSE "UnexpectedResponse"]
  /\ UNCHANGED <<workers, storage, documents, next_doc_id,
                 chunk_rows, next_chunk_id, relationships, next_rel_id, jobs>>

\* VectorStore.delete_document_vectors: the points of the 'chunks' collection
\* whose payload carries the document id are deleted (an exception of this
\* delete propagates), then the point of the 'documents' collection, whose
\* exception is logged and dropped.
delete_document_vectors(document_id, chunks_ok, documents_ok) ==
  /\ points' = IF chunks_ok THEN {p \in points : p.document_id # document_id}
               ELSE points
  /\ document_points' = IF chunks_ok /\ documents_ok
                        THEN document_points \ {document_id} ELSE document_points
  /\ call' = [op |-> "delete_document_vectors", document_id |-> document_id,
              chunks_deleted |-> chunks_ok,
              had_document_point |-> document_id \in document_points,
              removed |-> Cardinality({p \in points : p.document_id = document_id}),
              raised |-> IF chunks_ok THEN "none" ELSE "UnexpectedResponse"]
  /\ UNCHANGED <<workers, storage, documents, next_doc_id,
                 chunk_rows, next_chunk_id, relationships, next_rel_id, jobs>>

\* The vectors and the lists of chunk ids the client stores, and the vectors,
\* thresholds and filters it searches with.
StoreEmbeddings == {1}
StoreIdLists == {[i \in 1..k |-> i] : k \in 0..StoreLen}
StoreVectors == {0, 1}
StoreThresholds == {0, 80, 100}
StoreFilters ==
  {NoFilters} \cup {[NoFilters EXCEPT !.document_id = Some(d)] : d \in 1..StoreDocs}

InitStore ==
  /\ documents = <<>>
  /\ next_doc_id = 1
  /\ chunk_rows = {}
  /\ next_chunk_id = 1
  /\ relationships = {}
  /\ next_rel_id = 1
  /\ points = {}
  /\ jobs = <<NoJob>>
  /\ workers = 1
  /\ storage = <<>>
  /\ document_points = {}
  /\ call = NoCall

StoreNext ==
  \/ \E chunk_ids \in StoreIdLists,
        embeddings \in SeqsUpTo(StoreEmbeddings, StoreLen),
        metadata \in SeqsUpTo(StorePayloads, StoreLen), ok \in BOOLEAN :
       Call_store_chunk_embeddings(chunk_ids, embeddings, metadata, ok)
  \/ \E d \in 1..StoreDocs, ok \in BOOLEAN : store_document_embedding(d, ok)
  \/ \E v \in StoreVectors, limit \in 1..StoreLen, t \in StoreThresholds,
        f \in StoreFilters, ok \in BOOLEAN :
       Call_search_similar_chunks(v, limit, t, f, ok)
  \/ \E d \in 1..StoreDocs, chunks_ok \in BOOLEAN, documents_ok \in BOOLEAN :
       delete_document_vectors(d, chunks_ok, documents_ok)

SpecStore == InitStore /\ [][StoreNext]_vars

(***************************************************************************)
(* find_cross_document_similarities called on an index that holds a source *)
(* document of few or of many chunks and one target document.              *)
(***************************************************************************)
\* Chunk counts of the source document, and chunk counts of the target.
ScrollSizes == {1, 2, 3, ScrollLimit + 1}
ScrollTargetSizes == {1, 2}

\* The points of a document of n chunks whose first chunk has id first_id.
ScrollPoints(d, first_id, n, vector) ==
  {[id |-> first_id + i - 1, vector |-> vector, document_id |-> d,
    chunk_index |-> i - 1, document_type |-> "norm", chunk_text |-> <<"a">>]
   : i \in 1..n}

\* The tuples of a result, and the source chunks that occur in them.
SourceChunkIds(similarities) ==
  {similarities[i].source_chunk_id : i \in DOMAIN similarities}

\* The pending call of find_cross_document_similarities is made; the result
\* is kept as the number of its tuples and the source chunks in them.
Call_find_cross_document_similarities ==
  /\ call.op = "find_cross_document_similarities" /\ ~call.returned
  /\ call' = IF call.index_ok
             THEN LET similarities == find_cross_document_similarities(
                                        points, call.source_doc_id, call.target_doc_ids,
                                        call.threshold, call.limit_per_chunk)
                  IN  [call EXCEPT !.returned = TRUE, !.count = Len(similarities),
                                   !.source_chunk_ids = SourceChunkIds(similarities)]
             ELSE [call EXCEPT !.returned = TRUE, !.raised = "UnexpectedResponse"]
  /\ UNCHANGED <<workers, storage, document_points, points, documents, next_doc_id,
                 chunk_rows, next_chunk_id, relationships, next_rel_id, jobs>>

InitScroll ==
  /\ documents = [d \in 1..2 |-> NewDocument(RelProfile(d), "ready", FilePath(d))]
  /\ next_doc_id = 3
  /\ chunk_rows = {}
  /\ next_chunk_id = 1
  /\ relationships = {}
  /\ next_rel_id = 1
  /\ \E n \in ScrollSizes, m \in ScrollTargetSizes, v \in StoreVectors :
       points = ScrollPoints(1, 1, n, 1) \cup ScrollPoints(2, n + 1, m, v)
  /\ jobs = <<NoJob>>
  /\ workers = 1
  /\ storage = <<>>
  /\ document_points = {}
  /\ \E target_doc_ids \in {NoneValue, Some(<<2>>)}, threshold \in StoreThresholds,
        limit_per_chunk \in 1..StoreLen, index_ok \in BOOLEAN :
       call = [op |-> "find_cross_document_similarities", source_doc_id |-> 1,
               target_doc_ids |-> target_doc_ids, threshold |-> threshold,
               limit_per_chunk |-> limit_per_chunk, index_ok |-> index_ok,
               returned |-> FALSE, raised |-> "none", count |-> 0,
               source_chunk_ids |-> {}]

ScrollNext == Call_find_cross_document_similarities

SpecScroll == InitScroll /\ [][ScrollNext]_vars

(***************************************************************************)
(* The chunker called on its own: chunk_text applied to every text over a  *)
(* small alphabet up to a length that lets two paragraphs, several         *)
(* sentences and a paragraph longer than chunk_size occur.                 *)
(***************************************************************************)
MaxTextLen == 8

ChunkAlphabet == {"a", ".", " ", "\n"}

Call_chunk_text ==
  /\ call.op = "chunk_text" /\ ~call.returned
  /\ call' = [call EXCEPT !.returned = TRUE, !.chunks = chunk_text(call.text)]
  /\ UNCHANGED <<workers, storage, document_points, points, documents, next_doc_id,
                 chunk_rows, next_chunk_id, relationships, next_rel_id, jobs>>

InitChunk ==
  /\ documents = <<>>
  /\ next_doc_id = 1
  /\ chunk_rows = {}
  /\ next_chunk_id = 1
  /\ relationships = {}
  /\ next_rel_id = 1
  /\ points = {}
  /\ jobs = <<NoJob>>
  /\ workers = 1
  /\ storage = <<>>
  /\ document_points = {}
  /\ \E text \in SeqsUpTo(ChunkAlphabet, MaxTextLen) :
       call = [op |-> "chunk_text", text |-> text, returned |-> FALSE, chunks |-> <<>>]

ChunkNext == Call_chunk_text

SpecChunk == InitChunk /\ [][ChunkNext]_vars

(***************************************************************************)
(* POST /search on a corpus of processed documents.  semantic_search       *)
(* embeds the query and searches the 'chunks' collection; any exception    *)
(* on that path leads to fallback_text_search, an ILIKE query on the chunk *)
(* rows.  The payloads are the ones process_document stores, which carry   *)
(* the title, so the results are built from the payload alone.             *)
(***************************************************************************)
SearchLimit == 2

\* chunk_text[:500] of a result.
ChunkTextLimit == 500

\* similarity of a result of fallback_text_search, in hundredths.
PlaceholderSimilarity == 50

\* Case folding of ILIKE on the characters of the queries.
Lower(c) == IF c = "A" THEN "a" ELSE IF c = "B" THEN "b" ELSE c

\* text LIKE pattern, case-insensitive: '%' stands for any string and '_' for
\* any one character.
RECURSIVE ilike(_, _)
ilike(text, pattern) ==
  IF pattern = <<>> THEN text = <<>>
  ELSE IF Head(pattern) = "%"
       THEN \/ ilike(text, Tail(pattern))
            \/ text # <<>> /\ ilike(Tail(text), pattern)
       ELSE /\ text # <<>>
            /\ Head(pattern) = "_" \/ Lower(Head(pattern)) = Lower(Head(text))
            /\ ilike(Tail(text), Tail(pattern))

\* The queries, document types and thresholds of the requests.
SearchQueries ==
  {<<"a">>, <<"A", "a">>, <<"b">>, <<"b", "b">>, <<"a", "_">>, <<"%">>}
SearchTypes == {NoneValue, Some("norm"), Some("guideline")}
SearchThresholds == {50, 100}

\* The results semantic_search builds from the hits of the vector search.
SemanticResults(hits) ==
  [i \in DOMAIN hits |->
     [document_id |-> hits[i].document_id, document_type |-> hits[i].document_type,
      chunk_id |-> hits[i].id, chunk_text |-> Take(hits[i].chunk_text, ChunkTextLimit),
      similarity |-> hits[i].score]]

\* The rows the query of fallback_text_search selects before its LIMIT.
FallbackMatches(query, document_type) ==
  {r \in chunk_rows :
     /\ r.doc_id \in DOMAIN documents
     /\ ilike(r.chunk_text, <<"%">> \o query \o <<"%">>)
     /\ document_type.is_none
        \/ documents[r.doc_id].document_type = document_type.value}

\* The results of fallback_text_search for the rows the database returned.
FallbackResults(rows) ==
  LET ordered == SortById(rows)
  IN  [i \in DOMAIN ordered |->
         [document_id |-> ordered[i].doc_id,
          document_type |-> documents[ordered[i].doc_id].document_type,
          chunk_id |-> ordered[i].id,
          chunk_text |-> Take(ordered[i].chunk_text, ChunkTextLimit),
          similarity |-> PlaceholderSimilarity]]

\* fallback_text_search: the query has no ORDER BY, so LIMIT keeps any limit
\* of the matching rows; an exception of the database propagates.
fallback_text_search(request, database_ok) ==
  IF ~database_ok
  THEN call' = [request EXCEPT !.fallback = TRUE, !.raised = "OperationalError"]
  ELSE LET matches == FallbackMatches(request.query, request.document_type)
           n == IF Cardinality(matches) < request.limit
                THEN Cardinality(matches) ELSE request.limit
       IN  \E rows \in SUBSET matches :
             /\ Cardinality(rows) = n
             /\ call' = [request EXCEPT !.fallback = TRUE,
                                        !.results = FallbackResults(rows)]

\* POST /search.
semantic_search(query, document_type, limit, threshold, embedded, searched, database_ok) ==
  /\ LET request == [op |-> "semantic_search", query |-> query,
                     document_type |-> document_type, limit |-> limit,
                     threshold |-> threshold, database_ok |-> database_ok,
                     fallback |-> FALSE, raised |-> "none", results |-> <<>>]
     IN  IF embedded /\ searched
         THEN call' = [request EXCEPT !.results =
                         SemanticResults(
                           search_similar_chunks(
                             points, Embed(query), limit, threshold,
                             [NoFilters EXCEPT !.document_type = document_type]))]
         ELSE fallback_text_search(request, database_ok)
  /\ UNCHANGED <<workers, storage, document_points, points, documents, next_doc_id,
                 chunk_rows, next_chunk_id, relationships, next_rel_id, jobs>>

InitSearch ==
  /\ documents = [d \in 1..RelDocs |-> NewDocument(RelProfile(d), "ready", FilePath(d))]
  /\ next_doc_id = RelDocs + 1
  /\ chunk_rows = UNION {RelRows(d) : d \in 1..RelDocs}
  /\ next_chunk_id = FirstChunkId(RelDocs + 1)
  /\ relationships = {}
  /\ next_rel_id = 1
  /\ points = UNION {RelPoints(d) : d \in 1..RelDocs}
  /\ jobs = <<NoJob>>
  /\ workers = 1
  /\ storage = [d \in 1..RelDocs |-> StoredObject(d, RelText(d))]
  /\ document_points = {}
  /\ call = NoCall

SearchNext ==
  \E query \in SearchQueries, document_type \in SearchTypes, limit \in 1..SearchLimit,
     threshold \in SearchThresholds, embedded \in BOOLEAN, searched \in BOOLEAN,
     database_ok \in BOOLEAN :
    semantic_search(query, document_type, limit, threshold, embedded, searched,
                    database_ok)

SpecSearch == InitSearch /\ [][SearchNext]_vars

(***************************************************************************)
(* Properties.                                                             *)
(***************************************************************************)
ProcessJobs == {j \in DOMAIN jobs : jobs[j].kind = "process_document"}

\* The status a run commits after another one.
StatusSuccessor ==
  { <<None, "extracting">>, <<"extracting", "analyzing">>,
    <<"analyzing", "embedding">>, <<"embedding", "ready">> }

\* A stage works only after the status before it was committed by the run.
C1_StageAfterCommit ==
  \A j \in ProcessJobs :
    /\ jobs[j].pc = "extract" => jobs[j].last_commit = "extracting"
    /\ jobs[j].pc = "chunk" => jobs[j].last_commit = "analyzing"
    /\ jobs[j].pc \in {"embed", "upsert", "finalize"} => jobs[j].last_commit = "embedding"
    /\ jobs[j].pc = "fanout" => jobs[j].last_commit = "ready"

\* One step of a run commits nothing, or the successor of its last status;
\* the step on which it returns writes nothing but ERROR.
C1_Step ==
  \A j \in ProcessJobs :
    LET d == jobs[j].document_id IN
    jobs'[j] # jobs[j] /\ d \in DOMAIN documents =>
      IF jobs'[j].pc \in {"done", "handler"}
      THEN documents'[d].status \in {documents[d].status, "error"}
      ELSE \/ jobs'[j].last_commit = jobs[j].last_commit /\ documents'[d] = documents[d]
           \/ /\ <<jobs[j].last_commit, jobs'[j].last_commit>> \in StatusSuccessor
              /\ documents'[d].status = jobs'[j].last_commit

\* C1: in one run of process_document the committed statuses are EXTRACTING,
\* ANALYZING, EMBEDDING, READY in this order, none skipped or repeated; the
\* run leaves the sequence only by committing ERROR, and every status is
\* committed before the work of the next stage begins.
C1_StatusOrder == []C1_StageAfterCommit /\ [][C1_Step]_vars

\* A run that has committed all four statuses.
C1_Witness ==
  \E j \in ProcessJobs :
    jobs[j].pc = "fanout" /\ documents[jobs[j].document_id].status = "ready"

RowsOf(d) == {r \in chunk_rows : r.doc_id = d}
PointsOf(d) == {p \in points : p.document_id = d}

Enqueued == {k \in DOMAIN jobs : jobs[k].kind = "none" /\ jobs'[k].kind # "none"}

\* The step on which a run that raised returns.
FailedRunReturns(j) ==
  /\ jobs[j].kind = "process_document"
  /\ jobs[j].pc = "handler"
  /\ jobs'[j].pc = "done"
  /\ jobs[j].document_id \in DOMAIN documents

C4_Step ==
  \A j \in DOMAIN jobs :
    FailedRunReturns(j) =>
      /\ documents'[jobs[j].document_id].status = "error"
      /\ jobs'[j].result = "error"
      /\ Enqueued = {}

\* C4: when a stage of process_document raises after the document row was
\* loaded, the run returns with the document's committed status ERROR and the
\* error result, and no message is queued for the failed job.
C4_FailureCommitsError == [][C4_Step]_vars

\* C5: every document whose status is ERROR has a non-empty error_message.
C5_ErrorHasMessage ==
  \A d \in DOMAIN documents :
    documents[d].status = "error" => documents[d].error_message # None

\* The rows a run has flushed and not committed.
FlushedRows(j) == {jobs[j].db_chunks[i] : i \in DOMAIN jobs[j].db_chunks}

C6_Step ==
  \A j \in DOMAIN jobs :
    FailedRunReturns(j) /\ jobs[j].error = "vector index failed" =>
      FlushedRows(j) \cap chunk_rows' = {}

C7_OneRowPerPair ==
  \A r1, r2 \in relationships :
    r1.source_doc_id = r2.source_doc_id /\ r1.target_doc_id = r2.target_doc_id
      => r1 = r2

\* The runs of extract_relationships that have returned success.
Succeeded(d, targets) ==
  {k \in DOMAIN jobs : /\ jobs[k].kind = "extract_relationships"
                        /\ jobs[k].pc = "done"
                        /\ jobs[k].result = "success"
                        /\ jobs[k].document_id = d
                        /\ jobs[k].target_doc_ids = targets}

\* With one worker the runs follow one another: a run that is at work while
\* another one of the same message has succeeded is a second run.
C8_Step ==
  \A j \in DOMAIN jobs :
    /\ jobs[j].kind = "extract_relationships"
    /\ jobs'[j] # jobs[j]
    /\ workers = 1
    /\ Succeeded(jobs[j].document_id, jobs[j].target_doc_ids) \ {j} # {}
    => /\ relationships' = relationships
       /\ jobs'[j].pending = <<>>

\* C8: a second run of extract_relationships for the same source, in sequence
\* and with documents and index unchanged, inserts no row and leaves every
\* relationship row as it was.
C8_SecondRunIdempotent == [][C8_Step]_vars

\* A second run has returned and the first one had written rows.
C8_Witness ==
  /\ workers = 1
  /\ \E j, k \in {x \in DOMAIN jobs : jobs[x].kind = "extract_relationships"} :
       /\ j # k
       /\ k \in Succeeded(jobs[j].document_id, jobs[j].target_doc_ids)
       /\ j \in Succeeded(jobs[j].document_id, jobs[j].target_doc_ids)
       /\ \E r \in relationships : r.source_doc_id = jobs[j].document_id

\* C9: no row written by extract_relationships has source_doc_id equal to
\* target_doc_id, whatever target_doc_ids is, a list with the source's own id
\* included.
C9_NoSelfRelationship ==
  \A r \in relationships : r.source_doc_id # r.target_doc_id

\* The pairs of versions a > b of the string comparison.
VersionGreater ==
  { <<Some(<<"2">>), Some(<<"1">>)>>, <<Some(<<"2">>), Some(<<"1", "0">>)>>,
    <<Some(<<"1", "0">>), Some(<<"1">>)>> }

\* The classification table; s is the sum of the n scores of the bucket.
ClassificationTable(source_doc, target_doc, s, n) ==
  CASE source_doc.document_type = "norm" /\ target_doc.document_type = "guideline"
         -> "compliance"
    [] source_doc.document_type = "guideline" /\ target_doc.document_type = "norm"
         -> "reference"
    [] source_doc.document_type = "norm" /\ target_doc.document_type = "norm"
         -> IF s > 90 * n /\ <<source_doc.version, target_doc.version>> \in VersionGreater
            THEN "supersedes" ELSE "similar"
    [] OTHER -> "similar"

C10_Step ==
  \A j \in DOMAIN jobs :
    IsExtract(j, "buckets") /\ Len(jobs'[j].pending) = Len(jobs[j].pending) + 1 =>
      LET data == Head(jobs[j].doc_similarities)
          row  == jobs'[j].pending[Len(jobs'[j].pending)]
      IN  /\ row.relationship_type =
               ClassificationTable(documents[jobs[j].document_id],
                                   documents[data.target_doc_id],
                                   Sum(data.scores), Len(data.scores))
          /\ row.relationship_type # "conflict"

\* C10: the type determine_relationship_type gives a bucket is the one of the
\* classification table: NORM to GUIDELINE compliance, GUIDELINE to NORM
\* reference, NORM to NORM supersedes exactly when the average of the bucket
\* is above 0.90, both versions are set (None and the empty string are not)
\* and the source's version is the greater string, otherwise similar; it is
\* never conflict.
C10_ClassificationTable == [][C10_Step]_vars

\* A bucket was classified as supersedes where the greater string is the
\* smaller number, and the row was committed.
C10_Witness ==
  /\ documents[1].version = Some(<<"2">>)
  /\ documents[2].version = Some(<<"1", "0">>)
  /\ \E r \in relationships : r.relationship_type = "supersedes"

\* The row a step of the loop adds to the session, and the bucket it is for.
AddsRow(j) == IsExtract(j, "buckets") /\ Len(jobs'[j].pending) = Len(jobs[j].pending) + 1
AddedRow(j) == jobs'[j].pending[Len(jobs'[j].pending)]
BucketOf(j) == Head(jobs[j].doc_similarities)

\* The k-th highest of the scores, and the sum of the k highest.
KthHighest(scores, k) ==
  CHOOSE t \in {scores[i] : i \in DOMAIN scores} :
    /\ Cardinality({i \in DOMAIN scores : scores[i] >= t}) >= k
    /\ Cardinality({i \in DOMAIN scores : scores[i] > t}) < k

SumOfHighest(scores, k) ==
  LET t     == KthHighest(scores, k)
      above == {i \in DOMAIN scores : scores[i] > t}
      vals  == {scores[i] : i \in above}
  IN  Sum([i \in 1..Cardinality(vals) |->
             LET v == CHOOSE x \in vals :
                        Cardinality({y \in vals : y > x}) = i - 1
             IN  v * Cardinality({m \in above : scores[m] = v})])
      + (k - Cardinality(above)) * t

C11_Step ==
  \A j \in DOMAIN jobs :
    AddsRow(j) =>
      LET scores == BucketOf(j).scores
          k == Min({10, Len(scores)})
          c == AddedRow(j).confidence
          exact == SumOfHighest(scores, k) * 100
      IN  /\ 2 * (c * k - exact) <= k
          /\ 2 * (exact - c * k) <= k
          /\ c >= 0 /\ c <= 10000

\* C11: the confidence of a row is the mean of the min(10, n) highest scores
\* of its bucket, times 100, rounded to a nearest hundredth, and lies in
\* [0, 100] (here in hundredths of a percent).
C11_ConfidenceTopTen == [][C11_Step]_vars

\* A row of a bucket with more than ten scores, the lowest one first, was
\* committed with the confidence of the ten highest.
C11_Witness ==
  \E r \in relationships :
    r.details.matched_chunks_count = 11 /\ r.confidence = 10000

C12_Step ==
  \A j \in DOMAIN jobs :
    AddsRow(j) /\ Len(BucketOf(j).chunk_pairs) > 20 =>
      LET all  == BucketOf(j).chunk_pairs
          kept == AddedRow(j).details.chunk_pairs
          K    == {kept[i] : i \in DOMAIN kept}
      IN  /\ Len(kept) = 20
          /\ \A i \in DOMAIN all :
               all[i] \notin K => \A q \in K : all[i].similarity <= q.similarity

\* C12: for a bucket with more than 20 matches, details.chunk_pairs holds
\* the 20 pairs of the highest similarity: no pair left out scores higher
\* than one kept.
C12_TopTwentyPairs == [][C12_Step]_vars

ExtractJobs == {j \in DOMAIN jobs : jobs[j].kind = "extract_relationships"}

C13_Step ==
  /\ \A j \in ExtractJobs :
       jobs'[j] # jobs[j] =>
         /\ documents' = documents
         /\ jobs'[j].pc = "done" /\ jobs'[j].result = "error"
              => relationships' = relationships
         /\ jobs'[j].pc # "done" => relationships' = relationships
         /\ jobs'[j].pc = "done" /\ jobs[j].pc = "commit" /\ jobs'[j].result = "success"
              => relationships' = relationships \cup WithIds(jobs[j].pending, next_rel_id)

\* C13: a run of extract_relationships that raises before or in its single
\* commit persists none of the rows it had added and returns the error
\* result; rows appear only in the commit of a run that succeeds, all of
\* them at once; no step of a run changes a document.
C13_AllOrNothing == [][C13_Step]_vars

\* A run whose commit raised after it had added rows: the source is still
\* READY and has no relationship row.
C13_Witness ==
  \E j \in ExtractJobs :
    /\ jobs[j].pc = "done" /\ jobs[j].result = "error" /\ jobs[j].error = "commit failed"
    /\ documents[jobs[j].document_id].status = "ready"
    /\ \A r \in relationships : r.source_doc_id # jobs[j].document_id

\* C14: every relationship row links two documents that are READY: none is
\* written from a source that is not READY, and none to a target whose own
\* processing run has not committed READY.
C14_BothEndpointsReady ==
  \A r \in relationships :
    /\ documents[r.source_doc_id].status = "ready"
    /\ documents[r.target_doc_id].status = "ready"

ValidationSuccessor ==
  { <<"auto_detected", "pending_review">>, <<"pending_review", "approved">>,
    <<"pending_review", "rejected">> }

C16_Step ==
  \A r \in relationships : \A q \in relationships' :
    r.id = q.id /\ r.validation_status # q.validation_status
      => <<r.validation_status, q.validation_status>> \in ValidationSuccessor

\* C16: the validation_status of a relationship changes only from
\* AUTO_DETECTED to PENDING_REVIEW and from PENDING_REVIEW to APPROVED or
\* REJECTED.
C16_ValidationOrder == [][C16_Step]_vars

\* A step that is a call of store_chunk_embeddings.
StoreCalled == call' # call /\ call'.op = "store_chunk_embeddings"

C17_Step ==
  StoreCalled /\ ~(/\ Len(call'.chunk_ids) = Len(call'.embeddings)
                   /\ Len(call'.embeddings) = Len(call'.metadata))
  => call'.raised = "ValueError" /\ points' = points

\* C17: a call of store_chunk_embeddings whose three lists chunk_ids,
\* embeddings and metadata do not all have the same length raises ValueError
\* and leaves the 'chunks' collection as it was.
C17_LengthMismatchRejected == [][C17_Step]_vars

C18_Step ==
  StoreCalled /\ (\E i \in DOMAIN call'.metadata : ~call'.metadata[i].has_document_id)
  => call'.raised = "ValueError" /\ points' = points

\* C18: a call of store_chunk_embeddings in which some payload lacks
\* 'document_id' raises ValueError and leaves the 'chunks' collection as it
\* was, the points before the offending payload included.
C18_MissingDocumentIdRejected == [][C18_Step]_vars

C19_Step ==
  call' # call /\ call'.op = "delete_document_vectors" /\ call'.chunks_deleted
  => LET d == call'.document_id
     IN  /\ call'.raised = "none"
         /\ \A v \in StoreVectors, limit \in 1..StoreLen, t \in StoreThresholds :
              search_similar_chunks(points', v, limit, t,
                                    [NoFilters EXCEPT !.document_id = Some(d)]) = <<>>
         /\ {p \in points' : p.document_id # d} = {p \in points : p.document_id # d}

\* C19: once delete_document_vectors(d) has deleted from the 'chunks'
\* collection, the call returns without raising, whether or not the
\* 'documents' collection holds a point with id d, a search filtered on
\* document_id = d finds nothing for any query vector, limit and threshold,
\* and the points of the other documents are the ones there were.
C19_DeleteRemovesDocument == [][C19_Step]_vars

\* delete_document_vectors(d) returned after removing points of d, the
\* 'documents' collection held no point d, and points of another document
\* remain.
C19_Witness ==
  /\ call.op = "delete_document_vectors"
  /\ call.raised = "none"
  /\ ~call.had_document_point
  /\ call.removed > 0
  /\ points # {}


\* text contains query, letters compared without regard to case.
ContainsIgnoringCase(text, query) ==
  \E i \in 1..(Len(text) - Len(query) + 1) :
    \A k \in 1..Len(query) : Lower(text[i + k - 1]) = Lower(query[k])

\* C20: when embedding the query or the vector search raised and the
\* database answers, semantic_search does not raise and returns the result of
\* fallback_text_search: at most limit items, each with similarity 0.5, a
\* chunk text that contains the query case-insensitively and, if the request
\* names a document_type, that document type.
C20_FallbackResult ==
  call.op = "semantic_search" /\ call.fallback /\ call.database_ok
  => /\ call.raised = "none"
     /\ Len(call.results) <= call.limit
     /\ \A i \in DOMAIN call.results :
          /\ call.results[i].similarity = PlaceholderSimilarity
          /\ ContainsIgnoringCase(call.results[i].chunk_text, call.query)
          /\ call.document_type.is_none
             \/ call.results[i].document_type = call.document_type.value


\* C21: the name under which upload_document stored a document's file is the
\* file_path of the document's row, which is the name the download step of
\* process_document asks for.
C21_ObjectNameIsFilePath ==
  \A d \in DOMAIN storage :
    d \in DOMAIN documents => storage[d].object_name = documents[d].file_path


\* The extract_relationships messages a step puts on the queue.
NewExtractJobs ==
  {k \in DOMAIN jobs : jobs[k].kind = "none" /\ jobs'[k].kind = "extract_relationships"}

C22_Step ==
  /\ \A k \in NewExtractJobs :
       \E j \in ProcessJobs :
         /\ jobs[j].pc = "fanout"
         /\ jobs[j].last_commit = "ready"
         /\ jobs[j].document_id = jobs'[k].document_id
         /\ OtherReady(jobs[j].document_id) # {}
         /\ jobs'[j].pc = "done" /\ jobs'[j].result = "success"
  /\ \A j \in ProcessJobs :
       jobs[j].pc = "fanout" /\ jobs'[j].pc = "done"
       => /\ jobs'[j].result = "success"
          /\ OtherReady(jobs[j].document_id) # {}
             <=> \E k \in NewExtractJobs : jobs'[k].document_id = jobs[j].document_id
  /\ \A j \in ProcessJobs :
       jobs'[j].pc = "done" /\ jobs'[j].result = "error" /\ jobs[j].pc # "done"
       => NewExtractJobs = {}

\* C22: process_document puts an extract_relationships message for its
\* document on the queue exactly in the step after its READY commit in which
\* it counts at least one other READY document and returns success; a run
\* that returns the error result, and a run that has not committed READY,
\* queue nothing.
C22_FanOutAfterReady == [][C22_Step]_vars

\* A run has returned success and its extract_relationships message is queued.
C22_Witness ==
  \E j \in ProcessJobs, k \in DOMAIN jobs :
    /\ jobs[j].pc = "done" /\ jobs[j].result = "success"
    /\ jobs[k].kind = "extract_relationships"
    /\ jobs[k].document_id = jobs[j].document_id


C24_Step ==
  call' # call /\ call'.op = "delete_document" /\ call'.database_ok
  => LET d == call'.document_id
     IN  /\ call'.raised = "none"
         /\ d \notin DOMAIN documents'
         /\ \A c \in chunk_rows' : c.doc_id # d
         /\ \A r \in relationships' : r.source_doc_id # d /\ r.target_doc_id # d

\* C24: delete_document(d), with the row store answering, deletes the
\* document, also one that is only the target of a relationship, and leaves
\* no chunk row of d and no relationship with d as its source or its target.
C24_DeleteCascades == [][C24_Step]_vars

\* C30: every point of the 'chunks' collection carries the document_id of a
\* document of the row store; after delete_document(d) no point of d is left
\* for a search to return.
C30_PointsOfExistingDocuments ==
  \A p \in points : p.document_id \in DOMAIN documents


C25_Step ==
  \A j \in ProcessJobs :
    /\ jobs[j].pc # "done" /\ jobs'[j].pc = "done"
    /\ jobs[j].document_id \in DOMAIN documents
    => documents'[jobs[j].document_id].status \notin {"extracting", "analyzing", "embedding"}

\* C25: when a run of process_document on an existing document returns, the
\* committed status of the document is not EXTRACTING, ANALYZING or
\* EMBEDDING, also when the commit of ERROR failed.
C25_ReturnsInTerminalStatus == [][C25_Step]_vars


\* The sentences of a text: those re.split finds in its paragraphs.
SentenceLengths(text) ==
  LET paras == _split_paragraphs(text)
  IN  UNION {{Len(ReSplitSentences(paras[i])[k]) :
                k \in DOMAIN ReSplitSentences(paras[i])} : i \in DOMAIN paras}

LongestSentence(text) ==
  IF SentenceLengths(text) = {} THEN 0 ELSE Max(SentenceLengths(text))

\* C26: no chunk chunk_text emits is longer than chunk_size plus the length
\* of the longest sentence of the input.
C26_ChunkLengthBound ==
  call.op = "chunk_text" /\ call.returned
  => \A i \in DOMAIN call.chunks :
       Len(call.chunks[i].text) <= ChunkSize + LongestSentence(call.text)


\* C27: find_cross_document_similarities queries with every chunk point of
\* the source document: every source point that has a point of another
\* document at or above the threshold occurs as the source of a tuple.
C27_EverySourceChunkQueried ==
  call.op = "find_cross_document_similarities" /\ call.returned /\ call.raised = "none"
  => \A p \in points :
       /\ p.document_id = call.source_doc_id
       /\ \E q \in points : /\ q.document_id # call.source_doc_id
                            /\ Score(p.vector, q.vector) >= call.threshold
       => p.id \in call.source_chunk_ids


\* C28: when two process_document runs of one document interleave, a run
\* that is past its first step and did not commit READY itself never takes
\* a step that replaces a READY another run committed meanwhile.
MidRun == {"extract", "chunk", "embed", "upsert", "finalize", "handler"}

C28_Step ==
  \A j \in DOMAIN jobs :
    /\ jobs[j].kind = "process_document" /\ jobs[j].pc \in MidRun
    /\ jobs[j].last_commit # "ready"
    /\ jobs'[j] # jobs[j]
    /\ jobs[j].document_id \in DOMAIN documents
    /\ documents[jobs[j].document_id].status = "ready"
    => documents'[jobs[j].document_id].status = "ready"

C29_Step ==
  \A j \in DOMAIN jobs :
    /\ jobs[j].kind = "process_document"
    /\ jobs[j].pc # "done" /\ jobs'[j].pc = "done"
    => \A id \in jobs[j].upserted :
         (\E p \in points' : p.id = id) => \E c \in chunk_rows' : c.id = id

====
